---- MODULE Spec2Model ----
(***************************************************************************)
(* nxapi, src/common/users.tsx: the Users<T> cache of per-token user       *)
(* objects (an entry map plus a map of loads in flight) and CoralUser, the *)
(* user object whose four fields are refreshed independently.             *)
(*                                                                         *)
(* JavaScript runs one job at a time.  Each action below is one job: the   *)
(* synchronous part of a call, or one promise reaction (a .then callback,  *)
(* a .finally callback, the resumption of an awaiting caller).  Reactions  *)
(* of different promise chains may interleave, so each is its own action.  *)
(* Date.now() is the variable now; it advances only between tasks, when    *)
(* no promise reaction is waiting to run.                                  *)
(***************************************************************************)
EXTENDS Integers, Sequences, FiniteSets, TLC

\* Bounds of the Users model: clock steps, invocations of the loader, and
\* calls of get() that have not settled yet.
MaxTicks == 2
MaxLoads == 2
MaxCalls == 2

\* Inputs.
Tokens == {"t1", "t2"}
Errors == {"E1", "E2"}

\* users.tsx:79, the expires_at of an object that never expires.
Infinity == -1

\* Lifetimes (expires_at - created_at) of the objects the loader returns.
Lifetimes == {1, Infinity}

VARIABLES
    now,       \* Date.now()
    ticks,     \* how many times the clock has advanced
    users,     \* Users.users: token -> stored object (NoUser: no entry)
    promise,   \* Users.promise: token -> id of the registered load (0: none)
    loads,     \* every invocation of this._get, in order; id = index
    got,       \* the call of Users.get that started or settled in the last step
    updated,   \* CoralUser.updated: field -> time of its last successful refresh
    raw,       \* CoralUser.announcements, .friends, .webservices, .active_event
    cuPromise, \* CoralUser.promise: field -> id of the registered refresh (0: none)
    refreshes  \* every invocation of a refresh callback, in order; id = index

uvars == <<users, promise, loads, got>>
cvars == <<updated, raw, cuPromise, refreshes>>
vars == <<now, ticks, uvars, cvars>>

NoUser == [id |-> 0, created_at |-> 0, expires_at |-> 0]

\* No call started or settled in the last step.
NoCall == [token |-> "none", how |-> "none", on |-> 0, st |-> "none", val |-> 0, err |-> "none"]

\* a >= b on JavaScript numbers, with a possibly Infinity
Geq(a, b) == IF a = Infinity THEN TRUE ELSE a >= b

LoadIds == 1..Len(loads)

\* The loads this._get was invoked for with the token.
LoadsOf(token) == {l \in LoadIds : loads[l].token = token}

\* How often this._get was invoked with the token.
Invoked(token) == Cardinality(LoadsOf(token))

\* The calls of get() attached to a load that have not settled.
Waiting(l) == loads[l].joined - loads[l].settled

RECURSIVE WaitingUpTo(_)
WaitingUpTo(n) == IF n = 0 THEN 0 ELSE Waiting(n) + WaitingUpTo(n - 1)

\* The calls of get() that have not settled.
Outstanding == WaitingUpTo(Len(loads))

\* A load all of whose calls have settled: only its token and outcome are kept.
Settled(load) == [load EXCEPT !.data = NoUser, !.err = "none", !.joined = 0, !.settled = 0]

\* IsFresh with the comparison turned around.
IsFreshReversed(existing, t) == existing.id # 0 /\ ~Geq(existing.expires_at, t)

\* IsFresh without the test of expires_at.
IsFreshForever(existing, t) == existing.id # 0

\* users.tsx:34, existing && existing.expires_at >= Date.now()
IsFresh(existing, t) == existing.id # 0 /\ Geq(existing.expires_at, t)

\* PendingFor that never finds the registered load.
PendingForNone(token) == 0

\* users.tsx:38, this.promise.get(token)
PendingFor(token) == promise[token]

\* SetUser that stores nothing.
SetUserSkipped(token, data) == users

\* SetUser that drops the entries of the other tokens.
SetUserOnly(token, data) == [t \in Tokens |-> IF t = token THEN data ELSE NoUser]

\* users.tsx:39, this.users.set(token, data)
SetUser(token, data) == [users EXCEPT ![token] = data]

\* DeletePromise that leaves the load registered.
DeletePromiseSkipped(token) == promise

\* DeletePromise that removes the loads of all tokens.
DeletePromiseAll(token) == [t \in Tokens |-> 0]

\* users.tsx:42, this.promise.delete(token)
DeletePromise(token) == [promise EXCEPT ![token] = 0]

\* Promise.any in place of Promise.all.
AnyFetched(l) == loads[l].fetched # {}

\* users.tsx:56-61, Promise.all of the four requests is fulfilled
AllFetched(l) == loads[l].fetched = {"announcements", "friends", "webservices", "active_event"}

\* No promise reaction of a load or of a call is waiting to run.
Quiescent ==
    \A l \in LoadIds :
        \/ loads[l].st = "running"
        \/ loads[l].st = "warmup" /\ ~AllFetched(l)
        \/ loads[l].st \in {"done_ok", "done_err"} /\ Waiting(l) = 0

\* users.tsx:32-36, the entry is fresh: return it.
GetHit(token) ==
    /\ IsFresh(users[token], now)
    /\ got' = [token |-> token, how |-> "hit", on |-> 0, st |-> "value",
               val |-> users[token].id, err |-> "none"]
    /\ UNCHANGED <<now, ticks, users, promise, loads, cvars>>

\* users.tsx:38-47, a load is registered: return its promise.
GetJoin(token) ==
    /\ Outstanding < MaxCalls
    /\ ~IsFresh(users[token], now)
    /\ PendingFor(token) # 0
    /\ promise' = [promise EXCEPT ![token] = PendingFor(token)]
    /\ loads' = [loads EXCEPT ![PendingFor(token)].joined = @ + 1]
    /\ got' = [token |-> token, how |-> "join", on |-> PendingFor(token), st |-> "pending",
               val |-> 0, err |-> "none"]
    /\ UNCHANGED <<now, ticks, users, cvars>>

\* users.tsx:38-47, no load is registered: invoke this._get and register it.
GetLoad(token) ==
    /\ Outstanding < MaxCalls
    /\ Len(loads) < MaxLoads
    /\ ~IsFresh(users[token], now)
    /\ PendingFor(token) = 0
    /\ loads' = Append(loads, [token |-> token, started |-> now, st |-> "running",
                               data |-> NoUser, err |-> "none", joined |-> 1, settled |-> 0,
                               fetched |-> {}])
    /\ promise' = [promise EXCEPT ![token] = Len(loads) + 1]
    /\ got' = [token |-> token, how |-> "load", on |-> Len(loads) + 1, st |-> "pending",
               val |-> 0, err |-> "none"]
    /\ UNCHANGED <<now, ticks, users, cvars>>

\* users.tsx:26-48, Users.get
Get(token) == GetHit(token) \/ GetJoin(token) \/ GetLoad(token)

\* The promise this._get returned is fulfilled with a new object.
LoaderResolve(l) ==
    /\ loads[l].st = "running"
    /\ \E life \in Lifetimes :
        loads' = [loads EXCEPT ![l].st = "fulfilled", ![l].started = 0,
                               ![l].data = [id |-> l, created_at |-> loads[l].started,
                                            expires_at |-> IF life = Infinity THEN Infinity
                                                           ELSE loads[l].started + life]]
    /\ UNCHANGED <<now, ticks, users, promise, cvars>>
    /\ got' = NoCall

\* The promise this._get returned is rejected.
LoaderReject(l) ==
    /\ loads[l].st = "running"
    /\ \E e \in Errors : loads' = [loads EXCEPT ![l].st = "rejected", ![l].started = 0,
                                                  ![l].err = e]
    /\ UNCHANGED <<now, ticks, users, promise, cvars>>
    /\ got' = NoCall

\* users.tsx:38-40, the .then callback
ThenStore(l) ==
    /\ loads[l].st = "fulfilled"
    /\ users' = SetUser(loads[l].token, loads[l].data)
    /\ loads' = [loads EXCEPT ![l].st = "stored"]
    /\ UNCHANGED <<now, ticks, promise, cvars>>
    /\ got' = NoCall

\* users.tsx:41-43, the .finally callback; the registered promise settles with it
Finally(l) ==
    /\ loads[l].st \in {"stored", "rejected"}
    /\ promise' = DeletePromise(loads[l].token)
    /\ loads' = [loads EXCEPT ![l].st = IF loads[l].st = "stored" THEN "done_ok" ELSE "done_err"]
    /\ UNCHANGED <<now, ticks, users, cvars>>
    /\ got' = NoCall

\* Settle for a caller that is never resumed.
SettleNever(l) == FALSE /\ UNCHANGED vars

\* users.tsx:47, a call that returned the registered promise sees it settled
Settle(l) ==
    /\ Waiting(l) > 0
    /\ loads[l].st \in {"done_ok", "done_err"}
    /\ loads' = [loads EXCEPT ![l] = IF Waiting(l) = 1 THEN Settled(loads[l])
                                      ELSE [loads[l] EXCEPT !.settled = @ + 1]]
    /\ got' = [token |-> loads[l].token, how |-> "settle", on |-> l,
               st |-> IF loads[l].st = "done_ok" THEN "value" ELSE "error",
               val |-> loads[l].data.id, err |-> loads[l].err]
    /\ UNCHANGED <<now, ticks, users, promise, cvars>>

\* Date.now() advances.
Tick ==
    /\ Quiescent
    /\ ticks < MaxTicks
    /\ now' = now + 1
    /\ ticks' = ticks + 1
    /\ got' = NoCall
    /\ UNCHANGED <<users, promise, loads, cvars>>

\* users.tsx:18-24, a new Users
InitUsers ==
    /\ users = [t \in Tokens |-> NoUser]
    /\ promise = [t \in Tokens |-> 0]
    /\ loads = <<>>
    /\ got = NoCall

(***************************************************************************)
(* Users.coral, the loader of the cache of CoralUser objects               *)
(***************************************************************************)

\* users.tsx:54-61, getToken() is fulfilled: the loader resumes and sends the
\* four requests
TokenResolve(l) ==
    /\ loads[l].st = "running"
    /\ Quiescent
    /\ loads' = [loads EXCEPT ![l].st = "warmup"]
    /\ got' = NoCall
    /\ UNCHANGED <<now, ticks, users, promise, cvars>>

\* users.tsx:54, getToken() is rejected: so is the loader's promise
TokenReject(l) ==
    /\ loads[l].st = "running"
    /\ Quiescent
    /\ \E e \in Errors : loads' = [loads EXCEPT ![l].st = "rejected", ![l].started = 0,
                                                  ![l].err = e]
    /\ got' = NoCall
    /\ UNCHANGED <<now, ticks, users, promise, cvars>>

\* users.tsx:56-61, one of the four requests is answered
RequestResolve(l, key) ==
    /\ loads[l].st = "warmup"
    /\ Quiescent
    /\ key \notin loads[l].fetched
    /\ loads' = [loads EXCEPT ![l].fetched = @ \cup {key}]
    /\ got' = NoCall
    /\ UNCHANGED <<now, ticks, users, promise, cvars>>

\* users.tsx:56-61, one of the four requests fails: Promise.all is rejected
\* with its error, and so is the loader's promise; the answers to the other
\* requests are dropped
RequestReject(l, key) ==
    /\ loads[l].st = "warmup"
    /\ Quiescent
    /\ key \notin loads[l].fetched
    /\ \E e \in Errors : loads' = [loads EXCEPT ![l].st = "rejected", ![l].started = 0,
                                                  ![l].err = e, ![l].fetched = {}]
    /\ got' = NoCall
    /\ UNCHANGED <<now, ticks, users, promise, cvars>>

\* Construct of a CoralUser that expires at once.
ConstructExpiring(l) ==
    /\ loads[l].st = "warmup"
    /\ AllFetched(l)
    /\ loads' = [loads EXCEPT ![l].st = "fulfilled", ![l].started = 0, ![l].fetched = {},
                               ![l].data = [id |-> l, created_at |-> now,
                                            expires_at |-> now]]
    /\ got' = NoCall
    /\ UNCHANGED <<now, ticks, users, promise, cvars>>

\* users.tsx:63 and 78-79, all four requests are answered: the loader resumes,
\* constructs the CoralUser and its promise is fulfilled with it
Construct(l) ==
    /\ loads[l].st = "warmup"
    /\ AllFetched(l)
    /\ loads' = [loads EXCEPT ![l].st = "fulfilled", ![l].started = 0, ![l].fetched = {},
                               ![l].data = [id |-> l, created_at |-> now,
                                            expires_at |-> Infinity]]
    /\ got' = NoCall
    /\ UNCHANGED <<now, ticks, users, promise, cvars>>

(***************************************************************************)
(* CoralUser                                                               *)
(***************************************************************************)

\* Bounds of the CoralUser model: clock steps, invocations of a refresh
\* callback, and getter calls that have not settled yet.
MaxElapses == 2
MaxRefreshes == 2
MaxGetters == 2

\* users.tsx:83-88, the keys of CoralUser.updated
Fields == {"announcements", "friends", "webservices", "active_event"}

\* Ttl with the ttl of the announcements for every field.
TtlAnnouncements(key) == 30 * 60 * 1000

\* users.tsx:118, 126, 134, 142, the ttl each getter passes to update()
Ttl(key) == IF key = "announcements" THEN 30 * 60 * 1000 ELSE 10 * 1000

\* Steps by which Date.now() advances between tasks, in ms.
Elapses == {5000, 11000, 30 * 60 * 1000}

RefreshIds == 1..Len(refreshes)

\* A refresh all of whose getters have settled: nothing of it is kept.
Gone == [key |-> "none", st |-> "gone", err |-> "none", awaiting |-> 0,
         updated |-> 0, field |-> 0]

\* The refreshes of the field whose getters have not all settled.
RefreshesOf(key) == {r \in RefreshIds : refreshes[r].key = key}

\* The getter calls awaiting a refresh.
Awaiting(r) == refreshes[r].awaiting

RECURSIVE AwaitingUpTo(_)
AwaitingUpTo(n) == IF n = 0 THEN 0 ELSE Awaiting(n) + AwaitingUpTo(n - 1)

\* The getter calls that have not settled.
OutstandingGetters == AwaitingUpTo(Len(refreshes))

\* The response to the nso request that refresh v of a field sent (0: the
\* response the loader passed to the constructor).
Response(key, v) ==
    IF key = "friends" THEN [result |-> [friends |-> v]] ELSE [result |-> v]

\* users.tsx:120, 128, 136, 144, what a getter returns of the stored response
Derived(key, response) ==
    IF key = "friends" THEN response.result.friends ELSE response.result

\* NeedsUpdate with <= for <.
NeedsUpdateInclusive(key, ttl, t) == (updated[key] + ttl) <= t

\* NeedsUpdate that holds whatever the age of the field.
NeedsUpdateAlways(key, ttl, t) == TRUE

\* users.tsx:100, (this.updated[key] + ttl) < Date.now()
NeedsUpdate(key, ttl, t) == (updated[key] + ttl) < t

\* RefreshFor that never finds the registered refresh.
RefreshForNone(key) == 0

\* users.tsx:101, this.promise.get(key)
RefreshFor(key) == cuPromise[key]

\* users.tsx:117, 125, 133, 141, this.<key> = await this.nso.<request>()
SetField(key, response) == [raw EXCEPT ![key] = response]

\* SetUpdated that leaves last_updated as it was.
SetUpdatedSkipped(key, t) == updated

\* users.tsx:102, this.updated[key] = Date.now()
SetUpdated(key, t) == [updated EXCEPT ![key] = t]

\* DeleteRefresh that leaves the refresh registered.
DeleteRefreshSkipped(key) == cuPromise

\* DeleteRefresh that removes the refreshes of all fields.
DeleteRefreshAll(key) == [k \in Fields |-> 0]

\* users.tsx:104, this.promise.delete(key)
DeleteRefresh(key) == [cuPromise EXCEPT ![key] = 0]

\* No promise reaction of a refresh or of a getter is waiting to run.
QuiescentUser == \A r \in RefreshIds : refreshes[r].st \in {"running", "gone"}

\* GetterFresh that stamps the field as just updated.
GetterFreshTouching(key) ==
    /\ ~NeedsUpdate(key, Ttl(key), now)
    /\ updated' = SetUpdated(key, now)
    /\ UNCHANGED <<now, ticks, uvars, raw, cuPromise, refreshes>>

\* users.tsx:99-113 and 120, 128, 136, 144: the field is within its ttl, update()
\* awaits nothing and the getter returns what the field holds.  (The getter
\* resumes one job later; a field within its ttl has no refresh that is yet
\* to store a response, so the field holds the same then.)
GetterFresh(key) ==
    /\ ~NeedsUpdate(key, Ttl(key), now)
    /\ UNCHANGED <<now, ticks, uvars, updated, raw, cuPromise, refreshes>>

\* users.tsx:99-113, update(): a refresh of the field is registered, await it.
GetterJoin(key) ==
    /\ OutstandingGetters < MaxGetters
    /\ NeedsUpdate(key, Ttl(key), now)
    /\ RefreshFor(key) # 0
    /\ cuPromise' = [cuPromise EXCEPT ![key] = RefreshFor(key)]
    /\ refreshes' = [refreshes EXCEPT ![RefreshFor(key)].awaiting = @ + 1]
    /\ UNCHANGED <<now, ticks, uvars, updated, raw>>

\* users.tsx:99-113, update(): no refresh is registered, call the callback (it
\* sends the nso request) and register its promise.
GetterRefresh(key) ==
    /\ OutstandingGetters < MaxGetters
    /\ Len(refreshes) < MaxRefreshes
    /\ NeedsUpdate(key, Ttl(key), now)
    /\ RefreshFor(key) = 0
    /\ refreshes' = Append(refreshes, [key |-> key, st |-> "running", err |-> "none",
                                       awaiting |-> 1,
                                       updated |-> updated[key],
                                       field |-> Derived(key, raw[key])])
    /\ cuPromise' = [cuPromise EXCEPT ![key] = Len(refreshes) + 1]
    /\ UNCHANGED <<now, ticks, uvars, updated, raw>>

\* users.tsx:115-145, getAnnouncements, getFriends, getWebServices, getActiveEvent
Getter(key) == GetterFresh(key) \/ GetterJoin(key) \/ GetterRefresh(key)

\* users.tsx:117, 125, 133, 141, the nso request is answered: the callback
\* resumes and stores the response
Assign(r) ==
    /\ QuiescentUser
    /\ refreshes[r].st = "running"
    /\ raw' = SetField(refreshes[r].key, Response(refreshes[r].key, r))
    /\ refreshes' = [refreshes EXCEPT ![r].st = "assigned"]
    /\ UNCHANGED <<now, ticks, uvars, updated, cuPromise>>

\* users.tsx:117, 125, 133, 141, the nso request fails: the callback's promise
\* is rejected
NsoReject(r) ==
    /\ QuiescentUser
    /\ refreshes[r].st = "running"
    /\ \E e \in Errors : refreshes' = [refreshes EXCEPT ![r].st = "rejected", ![r].err = e]
    /\ UNCHANGED <<now, ticks, uvars, updated, raw, cuPromise>>

\* users.tsx:101-103, the .then callback
ThenUpdated(r) ==
    /\ refreshes[r].st = "assigned"
    /\ updated' = SetUpdated(refreshes[r].key, now)
    /\ refreshes' = [refreshes EXCEPT ![r].st = "updated"]
    /\ UNCHANGED <<now, ticks, uvars, raw, cuPromise>>

\* users.tsx:103-105, the .finally callback; the registered promise settles with it
FinallyRefresh(r) ==
    /\ refreshes[r].st \in {"updated", "rejected"}
    /\ cuPromise' = DeleteRefresh(refreshes[r].key)
    /\ refreshes' = [refreshes EXCEPT
                       ![r].st = IF refreshes[r].st = "updated" THEN "done_ok" ELSE "done_err"]
    /\ UNCHANGED <<now, ticks, uvars, updated, raw>>

\* Return for a getter that does not wait for the refresh to finish.
ReturnEarly(r) ==
    /\ Awaiting(r) > 0
    /\ refreshes[r].st \in {"running", "done_ok"}
    /\ refreshes' = [refreshes EXCEPT ![r].awaiting = @ - 1]
    /\ UNCHANGED <<now, ticks, uvars, updated, raw, cuPromise>>

\* users.tsx:109 and 120, 128, 136, 144: the awaited refresh was fulfilled, the
\* getter resumes and returns what the field holds.
Return(r) ==
    /\ Awaiting(r) > 0
    /\ refreshes[r].st = "done_ok"
    /\ refreshes' = [refreshes EXCEPT ![r] = IF Awaiting(r) = 1 THEN Gone
                                              ELSE [refreshes[r] EXCEPT !.awaiting = @ - 1]]
    /\ UNCHANGED <<now, ticks, uvars, updated, raw, cuPromise>>

\* users.tsx:109, the awaited refresh was rejected: so is the getter.
Throw(r) ==
    /\ Awaiting(r) > 0
    /\ refreshes[r].st = "done_err"
    /\ refreshes' = [refreshes EXCEPT ![r] = IF Awaiting(r) = 1 THEN Gone
                                              ELSE [refreshes[r] EXCEPT !.awaiting = @ - 1]]
    /\ UNCHANGED <<now, ticks, uvars, updated, raw, cuPromise>>

\* Date.now() advances.
Elapse ==
    /\ QuiescentUser
    /\ ticks < MaxElapses
    /\ \E d \in Elapses : now' = now + d
    /\ ticks' = ticks + 1
    /\ UNCHANGED <<uvars, updated, raw, cuPromise, refreshes>>

\* InitCoralUser with last_updated a day before the construction.
InitCoralUserEpoch ==
    /\ updated = [k \in Fields |-> now - 24 * 60 * 60 * 1000]
    /\ raw = [k \in Fields |-> Response(k, 0)]
    /\ cuPromise = [k \in Fields |-> 0]
    /\ refreshes = <<>>

\* users.tsx:77-97, a new CoralUser
InitCoralUser ==
    /\ updated = [k \in Fields |-> now]
    /\ raw = [k \in Fields |-> Response(k, 0)]
    /\ cuPromise = [k \in Fields |-> 0]
    /\ refreshes = <<>>

Init ==
    /\ now = 0
    /\ ticks = 0
    /\ InitUsers
    /\ InitCoralUser

\* The calls and promise reactions of a Users.
Next ==
    \/ \E t \in Tokens : Get(t)
    \/ \E l \in LoadIds : LoaderResolve(l)
    \/ \E l \in LoadIds : LoaderReject(l)
    \/ \E l \in LoadIds : ThenStore(l)
    \/ \E l \in LoadIds : Finally(l)
    \/ \E l \in LoadIds : Settle(l)
    \/ Tick

Spec == Init /\ [][Next]_vars

\* The calls and promise reactions of a CoralUser.
NextCoralUser ==
    \/ \E k \in Fields : Getter(k)
    \/ \E r \in RefreshIds : Assign(r)
    \/ \E r \in RefreshIds : NsoReject(r)
    \/ \E r \in RefreshIds : ThenUpdated(r)
    \/ \E r \in RefreshIds : FinallyRefresh(r)
    \/ \E r \in RefreshIds : Return(r)
    \/ \E r \in RefreshIds : Throw(r)
    \/ Elapse

SpecCoralUser == Init /\ [][NextCoralUser]_vars

\* The calls and promise reactions of the Users that Users.coral returns.
NextCoral ==
    \/ \E t \in Tokens : Get(t)
    \/ \E l \in LoadIds : TokenResolve(l)
    \/ \E l \in LoadIds : TokenReject(l)
    \/ \E l \in LoadIds : \E k \in Fields : RequestResolve(l, k)
    \/ \E l \in LoadIds : \E k \in Fields : RequestReject(l, k)
    \/ \E l \in LoadIds : Construct(l)
    \/ \E l \in LoadIds : ThenStore(l)
    \/ \E l \in LoadIds : Finally(l)
    \/ \E l \in LoadIds : Settle(l)
    \/ Tick

SpecCoral == Init /\ [][NextCoral]_vars

(***************************************************************************)
(* Properties of Users, checked under Spec                                 *)
(***************************************************************************)

\* The loads of a token whose registered promise has not settled.
Unsettled(token) == {l \in LoadsOf(token) : loads[l].st \notin {"done_ok", "done_err"}}

\* The step is a call of get(token).
GetStep(token) == got'.token = token /\ got'.how \in {"hit", "join", "load"}

\* The step is a caller of load l seeing the promise settled.
SettleStep(l) == got'.how = "settle" /\ got'.on = l

\* now < expires_at of the stored object
BeforeExpiry(token) ==
    users[token].id # 0 /\ (users[token].expires_at = Infinity \/ now < users[token].expires_at)

\* get(token) would invoke the loader: nothing fresh is stored, no load is registered.
WouldLoad(token) == ~IsFresh(users[token], now) /\ promise[token] = 0

\* C1: a call of get(token) made while no fresh entry exists and a load for the
\* token has not settled invokes no loader and returns that load's promise; the
\* call that finds no load invokes the loader once; at most one load per token is
\* unsettled in any state.
C1_Coalescing ==
    /\ [](\A t \in Tokens : Cardinality(Unsettled(t)) <= 1)
    /\ [][\A t \in Tokens :
            GetStep(t) /\ ~IsFresh(users[t], now) =>
                IF Unsettled(t) # {}
                THEN /\ Invoked(t)' = Invoked(t)
                     /\ got'.how = "join"
                     /\ {got'.on} = Unsettled(t)
                ELSE /\ Invoked(t)' = Invoked(t) + 1
                     /\ got'.how = "load"]_vars

\* C1 witness: MaxCalls calls share the one load of their token.
C1_Witness ==
    \E l \in LoadIds : /\ loads[l].st = "running"
                       /\ loads[l].joined = MaxCalls
                       /\ got.how = "join"
                       /\ Invoked(loads[l].token) = 1

\* C2: a call of get(token) made while an entry is stored and now < expires_at
\* returns the stored object, invokes no loader and leaves users and promise as
\* they are.
C2_Hit ==
    [][\A t \in Tokens :
            GetStep(t) /\ BeforeExpiry(t) =>
                /\ got'.how = "hit"
                /\ got'.st = "value"
                /\ got'.val = users[t].id
                /\ loads' = loads
                /\ users' = users
                /\ promise' = promise]_vars

\* C2 witness: a call returned the stored object, which expires later.
C2_Witness ==
    /\ got.how = "hit"
    /\ users[got.token].expires_at # Infinity
    /\ now < users[got.token].expires_at
    /\ got.val = users[got.token].id

\* An entry is stored for the token and now >= expires_at.
AtOrAfterExpiry(token) ==
    users[token].id # 0 /\ users[token].expires_at # Infinity /\ now >= users[token].expires_at

\* An entry is stored for the token and now > expires_at.
AfterExpiry(token) ==
    users[token].id # 0 /\ users[token].expires_at # Infinity /\ now > users[token].expires_at

\* A call of get(t) reloads: it invokes the loader once if no load of t is
\* unsettled, and joins the unsettled load without invoking the loader otherwise.
Reloads(t) ==
    IF Unsettled(t) = {}
    THEN got'.how = "load" /\ Invoked(t)' = Invoked(t) + 1
    ELSE got'.how = "join" /\ {got'.on} = Unsettled(t) /\ Invoked(t)' = Invoked(t)

\* C3 as claimed: from now >= expires_at on (now = expires_at included) a call of
\* get(token) invokes the loader once, and the calls arriving before that load
\* settles invoke none.
C3_ExpiryInclusive ==
    [][\A t \in Tokens : GetStep(t) /\ AtOrAfterExpiry(t) => Reloads(t)]_vars

\* C3 amended: from now > expires_at on a call of get(token) invokes the loader
\* once, and the calls arriving before that load settles invoke none; at
\* now = expires_at the stored object is still returned.
C3_Expiry ==
    [][\A t \in Tokens :
            /\ GetStep(t) /\ AfterExpiry(t) => Reloads(t)
            /\ GetStep(t) /\ AtOrAfterExpiry(t) /\ ~AfterExpiry(t) =>
                   got'.how = "hit" /\ Invoked(t)' = Invoked(t)]_vars

\* C3 witness: the entry has expired, one reload is running and two calls share it.
C3_Witness ==
    \E l \in LoadIds : /\ AfterExpiry(loads[l].token)
                       /\ loads[l].st = "running"
                       /\ loads[l].joined = 2
                       /\ got.how = "join"
                       /\ Invoked(loads[l].token) = 2

\* C4: when the loader's promise is rejected with E, the .finally callback
\* removes the registered promise and users is left as it was; every call that
\* shared the load sees E; from then on, until the next call of get(token), that
\* call would invoke the loader, and it does.
C4_LoaderFailure ==
    [][\A t \in Tokens :
            /\ \A l \in LoadsOf(t) :
                /\ loads[l].st = "running" /\ loads'[l].st = "rejected" => users' = users
                /\ loads[l].st = "rejected" /\ loads'[l].st # "rejected" =>
                       /\ loads'[l].st = "done_err"
                       /\ promise'[t] = 0
                       /\ users' = users
                       /\ WouldLoad(t)'
                /\ loads[l].st = "done_err" /\ SettleStep(l) =>
                       got'.st = "error" /\ got'.err = loads[l].err
            /\ WouldLoad(t) /\ GetStep(t) => got'.how = "load" /\ Invoked(t)' = Invoked(t) + 1
            /\ WouldLoad(t) /\ ~WouldLoad(t)' => GetStep(t)]_vars

\* C4 witness: a load failed, two calls shared it and both have seen the error,
\* and the next call of get() for the token has invoked the loader again.
C4_Witness ==
    /\ got.how = "load"
    /\ Invoked(got.token) = 2
    /\ \E l \in LoadsOf(got.token) : loads[l].st = "done_err" /\ Waiting(l) = 0

\* C5: when the loader's promise is fulfilled with V, V is stored in users while
\* the promise is still registered, and only then is the registration removed;
\* every call that shared the load sees V.
C5_LoaderSuccess ==
    /\ [](\A l \in LoadIds :
            /\ loads[l].st = "fulfilled" => promise[loads[l].token] = l
            /\ loads[l].st = "stored" =>
                   promise[loads[l].token] = l /\ users[loads[l].token] = loads[l].data
            /\ loads[l].st = "done_ok" /\ Waiting(l) > 0 => loads[l].data.id = l)
    /\ [][\A l \in LoadIds :
            /\ loads[l].st = "fulfilled" /\ loads'[l].st # "fulfilled" =>
                   loads'[l].st = "stored" /\ users'[loads[l].token] = loads[l].data
            /\ loads[l].st = "stored" /\ loads'[l].st # "stored" =>
                   /\ loads'[l].st = "done_ok"
                   /\ promise'[loads[l].token] = 0
                   /\ users'[loads[l].token] = loads[l].data
            /\ loads[l].st = "done_ok" /\ SettleStep(l) =>
                   got'.st = "value" /\ got'.val = loads[l].data.id]_vars

\* C5 witness: a load succeeded, its object is stored, and the second of the two
\* calls that shared it has seen that object.
C5_Witness ==
    /\ got.how = "settle"
    /\ got.st = "value"
    /\ loads[got.on].st = "done_ok"
    /\ Waiting(got.on) = 0
    /\ users[got.token].id = got.val
    /\ got.val = got.on

(***************************************************************************)
(* Properties of CoralUser, checked under SpecCoralUser                    *)
(***************************************************************************)

\* now - last_updated of the field
Age(key) == now - updated[key]

\* The refreshes of the field whose registered promise has not settled.
UnsettledRefreshes(key) ==
    {r \in RefreshesOf(key) : refreshes[r].st \in {"running", "assigned", "updated", "rejected"}}

\* The step is a getter of the field invoking the refresh callback.
StartsRefresh(key) ==
    /\ Len(refreshes') = Len(refreshes) + 1
    /\ refreshes'[Len(refreshes')].key = key

\* The step is a getter of the field joining the refresh r.
JoinsRefresh(key, r) ==
    /\ refreshes[r].key = key
    /\ refreshes'[r].awaiting = refreshes[r].awaiting + 1

\* The bounds leave room for one more getter call that awaits a refresh of the field.
RoomFor(key) ==
    /\ OutstandingGetters < MaxGetters
    /\ RefreshFor(key) # 0 \/ Len(refreshes) < MaxRefreshes

\* A getter of the field would take the path without a refresh, and no other.
ReadsOnly(key) ==
    /\ ENABLED GetterFresh(key)
    /\ ~ENABLED GetterJoin(key)
    /\ ~ENABLED GetterRefresh(key)

\* A getter of the field would start or join a refresh, and not read directly.
RefreshesOnly(key) ==
    /\ ~ENABLED GetterFresh(key)
    /\ RoomFor(key) => ENABLED (GetterJoin(key) \/ GetterRefresh(key))

\* C6 as claimed: a getter performs no refresh if and only if
\* now - last_updated < ttl; at now - last_updated = ttl it starts or joins one.
C6_FreshnessStrict ==
    \A k \in Fields : IF Age(k) < Ttl(k) THEN ReadsOnly(k) ELSE RefreshesOnly(k)

\* C6 amended: a getter performs no refresh if and only if
\* now - last_updated <= ttl (at now - last_updated = ttl it performs none); in
\* every other case it starts or joins a refresh, and a refresh is started or
\* joined in no other case.
C6_Freshness ==
    /\ [](\A k \in Fields : IF Age(k) <= Ttl(k) THEN ReadsOnly(k) ELSE RefreshesOnly(k))
    /\ [][\A k \in Fields :
            (StartsRefresh(k) \/ \E r \in RefreshIds : JoinsRefresh(k, r)) =>
                Age(k) > Ttl(k)]_vars

\* C6 witness: time has passed, a field is exactly ttl old, and a getter of it
\* takes the path without a refresh.
C6_Witness ==
    \E k \in Fields : /\ now > 0
                      /\ Age(k) = Ttl(k)
                      /\ ReadsOnly(k)

\* C7: concurrent getter calls for the same stale field invoke the refresh
\* callback once and all await that one refresh: at most one refresh per field
\* is unsettled, it is the registered one, a getter starts a refresh only when
\* none is unsettled and a joining getter awaits the unsettled one.  A getter
\* waits only for a refresh of its own field, and the refreshes of other fields
\* do not keep a stale field from starting its own.
C7_FieldCoalescing ==
    /\ [](\A k \in Fields :
            /\ Cardinality(UnsettledRefreshes(k)) <= 1
            /\ UnsettledRefreshes(k) = IF cuPromise[k] = 0 THEN {} ELSE {cuPromise[k]}
            /\ ENABLED GetterJoin(k) => UnsettledRefreshes(k) # {}
            /\ Age(k) > Ttl(k) /\ UnsettledRefreshes(k) = {} /\ RoomFor(k) =>
                   ENABLED GetterRefresh(k))
    /\ [][\A k \in Fields :
            /\ StartsRefresh(k) => UnsettledRefreshes(k) = {}
            /\ \A r \in RefreshIds :
                   JoinsRefresh(k, r) =>
                       Len(refreshes') = Len(refreshes) /\ UnsettledRefreshes(k) = {r}]_vars

\* C7 witness: MaxGetters getter calls await the one running refresh of a field.
C7_Witness ==
    \E r \in RefreshIds : /\ refreshes[r].st = "running"
                          /\ refreshes[r].awaiting = MaxGetters
                          /\ Cardinality(RefreshesOf(refreshes[r].key)) = 1

\* A getter of the field would invoke the refresh callback.
WouldRefresh(key) == NeedsUpdate(key, Ttl(key), now) /\ cuPromise[key] = 0

\* C8: when a refresh is rejected, last_updated and the stored value of the
\* field are as they were when it started, the .finally callback clears the
\* registration, every getter awaiting the refresh is rejected with the same
\* error, and from then on a getter of the field would start a new refresh, up to
\* the getter call that does.
C8_RefreshFailure ==
    /\ [](\A k \in Fields :
            /\ \A r \in RefreshesOf(k) :
                   refreshes[r].st \in {"rejected", "done_err"} =>
                       /\ updated[k] = refreshes[r].updated
                       /\ Derived(k, raw[k]) = refreshes[r].field
                       /\ NeedsUpdate(k, Ttl(k), now)
                       /\ refreshes[r].st = "done_err" => ENABLED Throw(r) /\ ~ENABLED Return(r)
            /\ WouldRefresh(k) /\ RoomFor(k) => ENABLED GetterRefresh(k))
    /\ [][\A k \in Fields :
            /\ \A r \in RefreshesOf(k) :
                /\ refreshes[r].st = "running" /\ refreshes'[r].st = "rejected" =>
                       raw' = raw /\ updated' = updated /\ cuPromise' = cuPromise
                /\ refreshes[r].st = "rejected" /\ refreshes'[r].st # "rejected" =>
                       /\ refreshes'[r].st = "done_err"
                       /\ refreshes'[r].err = refreshes[r].err
                       /\ refreshes'[r].awaiting = refreshes[r].awaiting
                       /\ cuPromise'[k] = 0
                       /\ raw' = raw /\ updated' = updated
                       /\ WouldRefresh(k)'
            /\ WouldRefresh(k) /\ ~WouldRefresh(k)' => StartsRefresh(k)]_vars

\* C8 witness: a refresh of a field failed, and the next getter call for the
\* field has started a new refresh.
C8_Witness ==
    \E r1, r2 \in RefreshIds : /\ r1 < r2
                               /\ refreshes[r1].st = "done_err"
                               /\ refreshes[r2].key = refreshes[r1].key
                               /\ refreshes[r2].st = "running"
                               /\ updated[refreshes[r1].key] = refreshes[r1].updated

\* C9: a step of a refresh of one field (its start, its success or failure, its
\* callbacks, the getters awaiting it) leaves the stored value, last_updated,
\* the registration and the refreshes of every other field as they were, and
\* another field that is within its ttl stays so and is read without a refresh.
C9_FieldIsolation ==
    /\ [](\A k \in Fields : \A r \in RefreshesOf(k) : \A j \in Fields \ {k} :
            Age(j) <= Ttl(j) => ReadsOnly(j))
    /\ [][\A k \in Fields :
            (StartsRefresh(k) \/ \E r \in RefreshesOf(k) : refreshes'[r] # refreshes[r]) =>
                \A j \in Fields \ {k} :
                    /\ raw'[j] = raw[j]
                    /\ updated'[j] = updated[j]
                    /\ cuPromise'[j] = cuPromise[j]
                    /\ \A q \in RefreshesOf(j) : refreshes'[q] = refreshes[q]
                    /\ Age(j) <= Ttl(j) => Age(j)' <= Ttl(j)]_vars

\* C9 witness: the refresh of one field has failed while the refresh of another
\* field is running and registered, and a third field is within its ttl.
C9_Witness ==
    \E r1, r2 \in RefreshIds :
        /\ refreshes[r1].st = "done_err"
        /\ refreshes[r2].st = "running"
        /\ refreshes[r2].key # refreshes[r1].key
        /\ cuPromise[refreshes[r2].key] = r2
        /\ \E j \in Fields : Age(j) <= Ttl(j) /\ ReadsOnly(j)

\* The fields whose getters pass a ttl of 10,000 ms.
TenSecondFields == {"friends", "webservices", "active_event"}

C11_ReadIdempotence ==
    /\ [](\A k \in Fields : Age(k) <= Ttl(k) => ReadsOnly(k))
    /\ [][\A k \in Fields :
            /\ GetterFresh(k) => UNCHANGED <<updated, raw, cuPromise, refreshes>>
            /\ Age(k) <= Ttl(k) =>
                   /\ updated'[k] = updated[k]
                   /\ raw'[k] = raw[k]
                   /\ ~StartsRefresh(k)
                   /\ \A r \in RefreshIds : ~JoinsRefresh(k, r)]_vars

\* C11 witness: a field was refreshed, its getters have returned, and 5,000 ms
\* into the new freshness window a getter reads the refreshed value.
C11_Witness ==
    \E k \in Fields : /\ updated[k] > 0
                      /\ Age(k) = 5000
                      /\ cuPromise[k] = 0
                      /\ RefreshesOf(k) = {}
                      /\ Derived(k, raw[k]) # 0
                      /\ ReadsOnly(k)

(***************************************************************************)
(* Properties of Users.coral, checked under SpecCoral                      *)
(***************************************************************************)

\* C12: the loader's promise is fulfilled, with a new CoralUser, only after
\* getToken() and all four requests have succeeded; nothing is stored for the
\* token before that, and what is stored is that CoralUser.  When getToken() or
\* one of the requests fails the load is rejected with that error, nothing is
\* stored, and the callers of get() see the error.
C12_CoralLoader ==
    /\ [](\A t \in Tokens :
            users[t].id # 0 =>
                /\ users[t].id \in LoadsOf(t)
                /\ loads[users[t].id].st \in {"stored", "done_ok"})
    /\ [][\A l \in LoadIds :
            /\ loads[l].st = "running" /\ loads'[l].st # "running" =>
                   loads'[l].st \in {"warmup", "rejected"}
            /\ loads[l].st = "warmup" /\ loads'[l].st # "warmup" =>
                   loads'[l].st \in {"fulfilled", "rejected"}
            /\ loads'[l].st = "fulfilled" /\ loads[l].st # "fulfilled" =>
                   /\ loads[l].st = "warmup"
                   /\ loads[l].fetched = Fields
                   /\ loads'[l].data.id = l
            /\ loads[l].st \in {"running", "warmup"} =>
                   users'[loads[l].token] = users[loads[l].token]
            /\ loads[l].st = "fulfilled" /\ loads'[l].st # "fulfilled" =>
                   users'[loads[l].token] = loads[l].data
            /\ loads[l].st = "rejected" =>
                   /\ users'[loads[l].token] = users[loads[l].token]
                   /\ loads'[l].st # "rejected" =>
                          loads'[l].st = "done_err" /\ loads'[l].err = loads[l].err
            /\ loads[l].st = "done_err" /\ SettleStep(l) =>
                   /\ got'.st = "error" /\ got'.err = loads[l].err
                   /\ users'[loads[l].token] = users[loads[l].token]]_vars

\* C12 witness: the load of one token has succeeded and its CoralUser is stored;
\* the load of the other token has failed, nothing is stored for it, and its
\* caller has just seen the error.
C12_Witness ==
    \E l1, l2 \in LoadIds :
        /\ loads[l1].st = "done_err"
        /\ users[loads[l1].token] = NoUser
        /\ got.how = "settle" /\ got.on = l1 /\ got.st = "error"
        /\ loads[l2].st = "done_ok"
        /\ users[loads[l2].token].id = l2

\* C19: every object stored in the cache of Users.coral has expires_at Infinity
\* and is fresh at any time; once an object is stored for a token the entry
\* never changes, the loader is not invoked for the token again, and every
\* call of get() for the token, and every caller of the load that produced it,
\* gets that object.
C19_CoralNeverExpires ==
    /\ [](\A t \in Tokens :
            users[t] # NoUser =>
                /\ users[t].expires_at = Infinity
                /\ IsFresh(users[t], now)
                /\ ENABLED GetHit(t)
                /\ ~ENABLED GetLoad(t) /\ ~ENABLED GetJoin(t))
    /\ [][\A t \in Tokens :
            users[t] # NoUser =>
                /\ users'[t] = users[t]
                /\ Invoked(t)' = Invoked(t)
                /\ GetStep(t) => got'.how = "hit" /\ got'.val = users[t].id
                /\ \A l \in LoadsOf(t) :
                       SettleStep(l) /\ loads[l].st = "done_ok" => got'.val = users[t].id]_vars

\* C19 witness: a CoralUser was stored, the clock has advanced as far as the
\* bound allows, and a call of get() has returned that object; the loader was
\* invoked once for the token.
C19_Witness ==
    /\ got.how = "hit"
    /\ ticks = MaxTicks
    /\ users[got.token].expires_at = Infinity
    /\ users[got.token].created_at < now
    /\ got.val = users[got.token].id
    /\ Invoked(got.token) = 1

(***************************************************************************)
(* Further properties of Users, checked under Spec                         *)
(***************************************************************************)

\* C13: a token has a registered promise exactly while a load of it has started
\* and its promise has not settled, and the registered promise is that load's.
\* The registration is made by the call that invokes the loader, and removed
\* once, by the .finally callback of that load, after success or failure; a
\* settled load stays settled.  A call that joins a load and a caller that sees
\* the load settled leave the registrations as they are.
C13_PendingInvariant ==
    /\ [](\A t \in Tokens : Unsettled(t) = IF promise[t] = 0 THEN {} ELSE {promise[t]})
    /\ [][/\ \A t \in Tokens :
               /\ promise[t] # 0 /\ promise'[t] # promise[t] =>
                      /\ promise'[t] = 0
                      /\ loads[promise[t]].st \in {"stored", "rejected"}
                      /\ loads'[promise[t]].st \in {"done_ok", "done_err"}
                      /\ got' = NoCall
               /\ promise[t] = 0 /\ promise'[t] # 0 =>
                      /\ got'.token = t /\ got'.how = "load"
                      /\ promise'[t] = Len(loads) + 1
               /\ GetStep(t) /\ got'.how = "join" => promise' = promise
          /\ \A l \in LoadIds :
               /\ SettleStep(l) => promise' = promise
               /\ loads[l].st \in {"done_ok", "done_err"} => loads'[l].st = loads[l].st]_vars

\* C13 witness: the load of one token has settled and its registration is gone,
\* while the load of the other token, shared by two calls, is still registered.
C13_Witness ==
    \E l1, l2 \in LoadIds :
        /\ loads[l1].st \in {"done_ok", "done_err"}
        /\ promise[loads[l1].token] = 0
        /\ loads[l2].st = "running"
        /\ loads[l2].joined = 2
        /\ promise[loads[l2].token] = l2

\* C17: the entry of a token changes only when a load of the token that was
\* fulfilled stores its object; a load is invoked only when the token has no
\* entry or its entry has expired, and until that load stores its object, and
\* after it has failed, the entry is as it was; an entry is never removed.
C17_EntryLifecycle ==
    /\ [](\A t \in Tokens : \A l \in Unsettled(t) :
            loads[l].st \in {"running", "rejected", "fulfilled"} =>
                users[t] = NoUser \/ AfterExpiry(t))
    /\ [][\A t \in Tokens :
            /\ users[t] # NoUser => users'[t] # NoUser
            /\ users'[t] # users[t] =>
                   \E l \in LoadsOf(t) : /\ loads[l].st = "fulfilled"
                                         /\ loads'[l].st = "stored"
                                         /\ users'[t] = loads[l].data
                                         /\ users'[t].id = l
            /\ got'.token = t /\ got'.how = "load" =>
                   users[t] = NoUser \/ AfterExpiry(t)
            /\ \A l \in Unsettled(t) :
                   loads[l].st \in {"running", "rejected", "stored"} =>
                       users'[t] = users[t]]_vars

\* C17 witness: the first load of a token created its entry, the entry expired,
\* and a second load of the token has replaced it.
C17_Witness ==
    \E l1, l2 \in LoadIds :
        /\ l1 < l2
        /\ loads[l1].token = loads[l2].token
        /\ loads[l1].st = "done_ok"
        /\ loads[l2].st = "stored"
        /\ users[loads[l2].token].id = l2

(***************************************************************************)
(* Further properties of CoralUser, checked under SpecCoralUser            *)
(***************************************************************************)

\* C14: when a refresh succeeds, the response is stored in the field, then the
\* .then callback sets last_updated to the time at which it runs, the time the
\* refresh completed, then the .finally callback clears the registration; the
\* getters awaiting the refresh return what is derived from the new response.
C14_RefreshSuccess ==
    /\ [](\A k \in Fields : \A r \in RefreshesOf(k) :
            /\ refreshes[r].st \in {"assigned", "updated", "done_ok"} =>
                   raw[k] = Response(k, r)
            /\ refreshes[r].st = "assigned" => cuPromise[k] = r
            /\ refreshes[r].st = "updated" => cuPromise[k] = r /\ updated[k] = now
            /\ refreshes[r].st = "done_ok" =>
                   /\ updated[k] = now
                   /\ ENABLED Return(r) /\ ~ENABLED Throw(r)
                   /\ Derived(k, raw[k]) = r)
    /\ [][\A k \in Fields : \A r \in RefreshesOf(k) :
            /\ refreshes[r].st = "running" /\ refreshes'[r].st = "assigned" =>
                   raw'[k] = Response(k, r) /\ updated'[k] = updated[k]
            /\ refreshes[r].st = "assigned" /\ refreshes'[r].st # "assigned" =>
                   /\ refreshes'[r].st = "updated"
                   /\ updated'[k] = now /\ now' = now
                   /\ raw'[k] = raw[k]
            /\ refreshes[r].st = "updated" /\ refreshes'[r].st # "updated" =>
                   /\ refreshes'[r].st = "done_ok"
                   /\ cuPromise'[k] = 0
                   /\ raw'[k] = raw[k] /\ updated'[k] = updated[k]]_vars

\* C14 witness: a refresh has succeeded and last_updated of its field is the
\* present time, which is later than the time it was started: a refresh of
\* another field, started after it, completed at an earlier time.
C14_Witness ==
    \E r \in RefreshIds : \E j \in Fields :
        /\ refreshes[r].st = "done_ok"
        /\ updated[refreshes[r].key] = now
        /\ cuPromise[refreshes[r].key] = 0
        /\ j # refreshes[r].key
        /\ Derived(j, raw[j]) > r
        /\ updated[j] < now

\* The state of a field: Refreshing while a refresh of it is registered,
\* otherwise Fresh or Stale by its age.
FieldState(key) ==
    IF cuPromise[key] # 0 THEN "Refreshing"
    ELSE IF Age(key) <= Ttl(key) THEN "Fresh" ELSE "Stale"

\* The step is a promise reaction of some refresh or the resumption of a getter.
Reaction ==
    \E r \in RefreshIds :
        Assign(r) \/ NsoReject(r) \/ ThenUpdated(r) \/ FinallyRefresh(r) \/ Return(r) \/ Throw(r)

\* C15: a field moves only from Fresh to Stale, by time passing; from Stale to
\* Refreshing, by a getter invoking the refresh callback; from Refreshing to
\* Fresh, when a refresh that succeeded and reset last_updated settles; and
\* from Refreshing to Stale, when a refresh that failed settles.  The callback
\* is invoked only for a Stale field, and in each state a step is possible.
C15_StateMachine ==
    /\ [](\A k \in Fields :
            /\ FieldState(k) = "Fresh" /\ QuiescentUser /\ ticks < MaxElapses => ENABLED Elapse
            /\ FieldState(k) = "Stale" /\ RoomFor(k) => ENABLED GetterRefresh(k)
            /\ FieldState(k) = "Refreshing" => ENABLED Reaction)
    /\ [][\A k \in Fields :
            /\ StartsRefresh(k) => FieldState(k) = "Stale"
            /\ FieldState(k)' # FieldState(k) =>
                   \/ /\ FieldState(k) = "Fresh" /\ FieldState(k)' = "Stale"
                      /\ now' > now
                   \/ /\ FieldState(k) = "Stale" /\ FieldState(k)' = "Refreshing"
                      /\ StartsRefresh(k)
                   \/ /\ FieldState(k) = "Refreshing" /\ FieldState(k)' = "Fresh"
                      /\ refreshes[cuPromise[k]].st = "updated"
                      /\ refreshes'[cuPromise[k]].st = "done_ok"
                      /\ updated[k] = now
                   \/ /\ FieldState(k) = "Refreshing" /\ FieldState(k)' = "Stale"
                      /\ refreshes[cuPromise[k]].st = "rejected"
                      /\ refreshes'[cuPromise[k]].st = "done_err"]_vars

\* C15 witness: one field is Stale again after a refresh of it failed, and
\* another is Fresh again after a refresh of it succeeded.
C15_Witness ==
    \E k, j \in Fields :
        /\ FieldState(k) = "Stale"
        /\ \E r \in RefreshesOf(k) : refreshes[r].st = "done_err"
        /\ FieldState(j) = "Fresh"
        /\ updated[j] > 0

\* C18: a getter returns a value only of a field that is within its ttl at that
\* moment: either it took the path without a refresh, or the refresh it awaited
\* has succeeded, has stored its response and has just set last_updated.  The
\* getter of a stale field awaits a refresh, and leaves it only when it has
\* settled: with that refresh's response, or with its error.
C18_ReturnsFresh ==
    /\ [](\A k \in Fields :
            /\ ENABLED GetterFresh(k) => Age(k) <= Ttl(k)
            /\ Age(k) > Ttl(k) => ~ENABLED GetterFresh(k)
            /\ \A r \in RefreshesOf(k) :
                /\ ENABLED Return(r) =>
                       /\ Age(k) <= Ttl(k)
                       /\ raw[k] = Response(k, r)
                       /\ updated[k] = now
                /\ ENABLED Throw(r) => refreshes[r].st = "done_err" /\ ~ENABLED Return(r))
    /\ [][\A r \in RefreshIds :
            Awaiting(r)' < Awaiting(r) =>
                \/ /\ refreshes[r].st = "done_ok"
                   /\ Age(refreshes[r].key) <= Ttl(refreshes[r].key)
                   /\ Derived(refreshes[r].key, raw[refreshes[r].key]) = r
                \/ refreshes[r].st = "done_err"]_vars

\* C18 witness: two getters of a field that was stale are about to return the
\* response of the refresh they awaited, and the field is within its ttl.
C18_Witness ==
    \E r \in RefreshIds :
        /\ refreshes[r].st = "done_ok"
        /\ refreshes[r].awaiting = 2
        /\ now - refreshes[r].updated > Ttl(refreshes[r].key)
        /\ Age(refreshes[r].key) = 0
        /\ Derived(refreshes[r].key, raw[refreshes[r].key]) = r

\* C20: the CoralUser is constructed at time 0.  As long as now is within the
\* ttl of a field, last_updated of the field is the construction time, the
\* field holds the response the loader passed to the constructor, no refresh of
\* it was started, and a getter of it takes the path without a refresh and
\* returns what is derived from that response.
C20_StartsFresh ==
    [](\A k \in Fields :
          now <= Ttl(k) =>
              /\ updated[k] = 0
              /\ raw[k] = Response(k, 0)
              /\ Derived(k, raw[k]) = 0
              /\ cuPromise[k] = 0
              /\ RefreshesOf(k) = {}
              /\ ReadsOnly(k))

\* C20 witness: 5,000 ms after the construction every field still has the
\* construction time and the loader's response, and is read without a refresh.
C20_Witness ==
    /\ now = 5000
    /\ \A k \in Fields : /\ updated[k] = 0
                         /\ raw[k] = Response(k, 0)
                         /\ ReadsOnly(k)

(***************************************************************************)
(* Settlement of Users and CoralUser calls, checked under SpecSettle       *)
(***************************************************************************)

\* The token and the field whose calls are followed.
SettleTokens == {"t1"}
SettleFields == {"friends"}

\* A Users and a CoralUser share no state but the clock: a behaviour of
\* SpecSettle follows the calls of one of the two objects.
NextSettle ==
    \/ /\ refreshes = <<>>
       /\ \/ \E t \in SettleTokens : Get(t)
          \/ \E l \in LoadIds : LoaderResolve(l)
          \/ \E l \in LoadIds : LoaderReject(l)
          \/ \E l \in LoadIds : ThenStore(l)
          \/ \E l \in LoadIds : Finally(l)
          \/ \E l \in LoadIds : Settle(l)
          \/ Tick
    \/ /\ loads = <<>>
       /\ \/ \E k \in SettleFields : Getter(k)
          \/ \E r \in RefreshIds : Assign(r)
          \/ \E r \in RefreshIds : NsoReject(r)
          \/ \E r \in RefreshIds : ThenUpdated(r)
          \/ \E r \in RefreshIds : FinallyRefresh(r)
          \/ \E r \in RefreshIds : Return(r)
          \/ \E r \in RefreshIds : Throw(r)
          \/ Elapse

\* Every started loader and nso request is eventually answered, and every
\* promise reaction that is ready eventually runs.
FairSettle ==
    /\ \A l \in 1..MaxLoads :
        /\ WF_vars(l \in LoadIds /\ (LoaderResolve(l) \/ LoaderReject(l)))
        /\ WF_vars(l \in LoadIds /\ ThenStore(l))
        /\ WF_vars(l \in LoadIds /\ Finally(l))
        /\ WF_vars(l \in LoadIds /\ Settle(l))
    /\ \A r \in 1..MaxRefreshes :
        /\ WF_vars(r \in RefreshIds /\ (Assign(r) \/ NsoReject(r)))
        /\ WF_vars(r \in RefreshIds /\ ThenUpdated(r))
        /\ WF_vars(r \in RefreshIds /\ FinallyRefresh(r))
        /\ WF_vars(r \in RefreshIds /\ (Return(r) \/ Throw(r)))

SpecSettle == Init /\ [][NextSettle]_vars /\ FairSettle

\* C16: a registration is removed only by the .finally callback of its load or
\* refresh, never by a caller, and a caller leaves a load or refresh only once
\* it has settled.  If every started loader and request is eventually answered,
\* every load and refresh eventually settles with all its callers resumed, and
\* every registration is eventually removed.
C16_Settlement ==
    /\ [][/\ \A l \in LoadIds :
               /\ Waiting(l)' < Waiting(l) => loads[l].st \in {"done_ok", "done_err"}
               /\ promise[loads[l].token] = l /\ promise'[loads[l].token] # l =>
                      loads[l].st \in {"stored", "rejected"} /\ got' = NoCall
          /\ \A r \in RefreshIds :
               /\ Awaiting(r)' < Awaiting(r) => refreshes[r].st \in {"done_ok", "done_err"}
               /\ refreshes[r].st \in {"running", "assigned", "updated", "rejected"} =>
                      \/ cuPromise'[refreshes[r].key] = r
                      \/ refreshes[r].st \in {"updated", "rejected"} /\
                         refreshes'[r].st \in {"done_ok", "done_err"}]_vars
    /\ \A l \in 1..MaxLoads :
           (l \in LoadIds /\ loads[l].st = "running") ~>
               (/\ l \in LoadIds
                /\ loads[l].st \in {"done_ok", "done_err"}
                /\ Waiting(l) = 0
                /\ promise[loads[l].token] # l)
    /\ \A r \in 1..MaxRefreshes :
           (r \in RefreshIds /\ refreshes[r].st = "running") ~>
               (/\ r \in RefreshIds
                /\ refreshes[r] = Gone
                /\ \A k \in Fields : cuPromise[k] # r)

\* C16 witness: every load the bounds allow was invoked, two calls shared the
\* last one, all of them have settled and no registration is left.
C16_Witness ==
    /\ Len(loads) = MaxLoads
    /\ \A l \in LoadIds : loads[l].st \in {"done_ok", "done_err"}
    /\ Outstanding = 0
    /\ \A t \in Tokens : promise[t] = 0
    /\ got.how = "settle" /\ got.on = MaxLoads

====
